---- MODULE Spec2Model ----
(***************************************************************************)
(* Model of packages/graphql/src/schema/resolvers/wrapper.ts: the request  *)
(* resolver wrapper (wrapResolver, getAuthorizationContext) and the        *)
(* subscription resolver wrapper (wrapSubscription).                       *)
(*                                                                         *)
(* JavaScript objects are functions from field names to values; a field    *)
(* that is not in the domain reads as Undefined.  Every async function is  *)
(* cut at its awaits: one action is one run-to-completion block between    *)
(* two suspension points.                                                  *)
(***************************************************************************)
EXTENDS Naturals, FiniteSets, Sequences, TLC

(* ------------------------------------------------------------------ *)
(* Bounds                                                              *)
(* ------------------------------------------------------------------ *)

\* number of wrapResolver invocations (field resolutions) in one run
NumInvocations == 2

Invocations == 1..NumInvocations

(* ------------------------------------------------------------------ *)
(* JavaScript values and objects                                       *)
(* ------------------------------------------------------------------ *)

Undefined == "undefined"

\* the object literal {} of NamedParam("jwt", {})
EmptyObject == "{}"

\* an object with no own fields
NoFields == [k \in {} |-> Undefined]

\* JavaScript truthiness of the values that occur here
Truthy(v) == v \notin {Undefined, ""}

\* obj.k (and obj?.k on an object)
Get(obj, k) == IF k \in DOMAIN obj THEN obj[k] ELSE Undefined

\* obj.k = v
Put(obj, k, v) == [x \in (DOMAIN obj) \cup {k} |-> IF x = k THEN v ELSE obj[x]]

\* { ...a, ...b }: the fields of both, b's value where both have the field
Spread(a, b) ==
    [x \in (DOMAIN a) \cup (DOMAIN b) |-> IF x \in DOMAIN b THEN b[x] ELSE a[x]]

\* new Cypher.NamedParam(name, value)
NamedParam(name, value) == [name |-> name, value |-> value]

(* ------------------------------------------------------------------ *)
(* Inputs                                                              *)
(* ------------------------------------------------------------------ *)

\* claims the caller resolved itself and put on the context
CallerClaims == "claims:caller"
\* claims authorization.decode(context) resolves to
DecodedClaims == "claims:decoded"

\* a session the caller put on context.executionContext
CallerHandle == "H1"
\* the driver given to Neo4jGraphQL on construction
ConfiguredDriver == "driver"

\* Neo4jDatabaseInfo values: the dbInfo override and what the query returns
OverrideInfo == "Neo4jDatabaseInfo:override"
QueriedInfo == "Neo4jDatabaseInfo:queried"
CallerInfo == "Neo4jDatabaseInfo:caller"

\* neo4jDatabaseInfo?.version
Version(info) == IF info = Undefined THEN Undefined ELSE "version-of-" \o info

\* the claim-to-field map of the wrapper
PayloadFieldsMap == "jwtPayloadFieldsMap"

\* WrapResolverArguments of an invocation's wrapper
WrapResolverArguments ==
    [ driver : {Undefined, ConfiguredDriver},
      nodes : {"nodes"},
      relationships : {"relationships"},
      jwtPayloadFieldsMap : {PayloadFieldsMap},
      schemaModel : {"schemaModel"},
      dbInfo : {Undefined, OverrideInfo},
      features : {[subscriptions |-> "engine"]},
      authorization : {Undefined, "authorization"} ]

\* an AuthorizationContext the caller put on the context itself
CallerAuthorization ==
    [ isAuthenticated |-> TRUE,
      jwt |-> CallerClaims,
      jwtParam |-> NamedParam("jwt", CallerClaims),
      isAuthenticatedParam |-> NamedParam("isAuthenticated", TRUE) ]

\* an Executor the caller put on the context itself
CallerExecutor ==
    [ executionContext |-> "H2",
      cypherQueryOptions |-> Undefined,
      sessionConfig |-> Undefined ]

\* the context objects a caller hands to the resolvers of a request
CallerContexts ==
    { NoFields,
      [executionContext |-> CallerHandle, sessionConfig |-> "sessionConfig"],
      [executionContext |-> CallerHandle, jwt |-> CallerClaims],
      [jwt |-> CallerClaims, token |-> "token"],
      [token |-> "token", authorization |-> CallerAuthorization,
       executor |-> CallerExecutor, neo4jDatabaseInfo |-> CallerInfo,
       subscriptionsEnabled |-> FALSE] }

(* ------------------------------------------------------------------ *)
(* State                                                               *)
(* ------------------------------------------------------------------ *)

VARIABLES
    args,                  \* args[i]: the WrapResolverArguments of invocation i's wrapper
    contextOf,             \* contextOf[i]: the context object invocation i was called with
    callerContext,         \* callerContext[c]: object c as the caller built it
    context,               \* context[c]: object c now
    neo4jDatabaseInfo,     \* the module-level cache
    pc,                    \* pc[i]: where invocation i is suspended
    authorizationContext,  \* authorizationContext[i]: result of getAuthorizationContext
    executor,              \* executor[i]
    nextCalls,             \* nextCalls[i]: the contexts next was called with, in order
    thrown,                \* thrown[i]: the error invocation i rejected with
    decodeCalls,           \* decodeCalls[i]: the promise of i's authorization.decode call
    versionQueries,        \* versionQueries[i]: the promise of i's getNeo4jDatabaseInfo call
    \* wrapSubscription (one call)
    resolverArgs,          \* the WrapResolverArguments of the subscription wrapper
    connectionContext,     \* the context argument: a SubscriptionConnectionContext or undefined
    subscriptionContext,   \* the local subscriptionContext
    subscriptionPc,        \* where the call is suspended
    subscriptionNextCalls, \* the contexts next was called with, in order
    subscriptionThrown,    \* the error the call rejected with
    bearerDecodeCalls,     \* the decodeBearerTokenWithVerify calls: token and promise, in order
    \* new Operation(...) and findAttribute on the result
    operationInput,        \* the constructor's argument: name, attributes, annotations
    operation,             \* the constructed Operation: name, attributes, annotations
    operationPc,           \* "start", "constructed" or "thrown"
    operationThrown,       \* the message of the error the constructor threw
    found                  \* the last findAttribute call: name and result

requestVars == << args, contextOf, callerContext, context, neo4jDatabaseInfo, pc,
                  authorizationContext, executor, nextCalls, thrown, decodeCalls,
                  versionQueries >>

subscriptionVars == << resolverArgs, connectionContext, subscriptionContext,
                       subscriptionPc, subscriptionNextCalls, subscriptionThrown,
                       bearerDecodeCalls >>

operationVars == << operationInput, operation, operationPc, operationThrown, found >>

vars == << requestVars, subscriptionVars, operationVars >>

\* value of a local that has not been assigned yet
Unassigned == [unassigned |-> TRUE]

NoError == "none"
ConfigurationError == "A Neo4j driver instance must either be passed ..."
VersionQueryError == "getNeo4jDatabaseInfo rejected"
\* new Neo4jError("Unauthenticated", AUTH_FORBIDDEN_ERROR)
UnauthenticatedError == "Neo4jError: Unauthenticated"
\* what decodeBearerTokenWithVerify rejects with
BearerDecodeError == "decodeBearerTokenWithVerify rejected"

(* ------------------------------------------------------------------ *)
(* getAuthorizationContext                                             *)
(* ------------------------------------------------------------------ *)

\* mutant of NeedsDecode: the test of context.jwt is dropped
NeedsDecodeAlways(ctx, authorization) == Truthy(authorization)

\* the condition under which getAuthorizationContext calls authorization.decode
NeedsDecode(ctx, authorization) ==
    ~Truthy(Get(ctx, "jwt")) /\ Truthy(authorization)

\* the AuthorizationContext returned after decode resolved and ctx.jwt was written
DecodedAuthorizationContext(ctx, jwtPayloadFieldsMap) ==
    [ isAuthenticated |-> TRUE,
      jwt |-> Get(ctx, "jwt"),
      jwtParam |-> NamedParam("jwt", Get(ctx, "jwt")),
      isAuthenticatedParam |-> NamedParam("isAuthenticated", TRUE),
      claims |-> jwtPayloadFieldsMap ]

\* mutant of UnauthenticatedAuthorizationContext: jwtParam wraps undefined
UnauthenticatedUndefinedParam ==
    [ isAuthenticated |-> FALSE,
      jwtParam |-> NamedParam("jwt", Undefined),
      isAuthenticatedParam |-> NamedParam("isAuthenticated", FALSE) ]

\* the AuthorizationContext returned from the catch block
UnauthenticatedAuthorizationContext ==
    [ isAuthenticated |-> FALSE,
      jwtParam |-> NamedParam("jwt", EmptyObject),
      isAuthenticatedParam |-> NamedParam("isAuthenticated", FALSE) ]

\* mutant of CarriedAuthorizationContext: authenticated only when claims are carried
CarriedOnlyWithClaims(ctx) ==
    [ isAuthenticated |-> Truthy(Get(ctx, "jwt")),
      jwt |-> Get(ctx, "jwt"),
      jwtParam |-> NamedParam("jwt", Get(ctx, "jwt")),
      isAuthenticatedParam |-> NamedParam("isAuthenticated", Truthy(Get(ctx, "jwt"))) ]

\* the AuthorizationContext returned when decode is not attempted
CarriedAuthorizationContext(ctx) ==
    [ isAuthenticated |-> TRUE,
      jwt |-> Get(ctx, "jwt"),
      jwtParam |-> NamedParam("jwt", Get(ctx, "jwt")),
      isAuthenticatedParam |-> NamedParam("isAuthenticated", TRUE) ]

(* ------------------------------------------------------------------ *)
(* wrapResolver                                                        *)
(* ------------------------------------------------------------------ *)

\* mutant of HandleMissing: the check is dropped
HandleMissingDropped(ctx, driver) == FALSE

\* no handle on the context and no driver configured
HandleMissing(ctx, driver) ==
    ~Truthy(Get(ctx, "executionContext")) /\ ~Truthy(driver)

\* mutant of EnsureHandle: the driver is installed whatever the context names
EnsureHandleAlwaysDriver(ctx, driver) == Put(ctx, "executionContext", driver)

\* the context object after the handle check passed
EnsureHandle(ctx, driver) ==
    IF ~Truthy(Get(ctx, "executionContext"))
    THEN Put(ctx, "executionContext", driver)
    ELSE ctx

\* mutant of WriteBackJwt: the test of context.jwt is dropped
WriteBackJwtAlways(ctx, authCtx) == Put(ctx, "jwt", Get(authCtx, "jwt"))

\* if (!context.jwt) context.jwt = authorizationContext.jwt
WriteBackJwt(ctx, authCtx) ==
    IF ~Truthy(Get(ctx, "jwt")) THEN Put(ctx, "jwt", Get(authCtx, "jwt")) ELSE ctx

\* new Executor({ executionContext, cypherQueryOptions, sessionConfig })
Executor(ctx) ==
    [ executionContext |-> Get(ctx, "executionContext"),
      cypherQueryOptions |-> Get(ctx, "cypherQueryOptions"),
      sessionConfig |-> Get(ctx, "sessionConfig") ]

\* if (dbInfo) neo4jDatabaseInfo = dbInfo
ApplyOverride(cache, dbInfo) == IF Truthy(dbInfo) THEN dbInfo ELSE cache

\* mutant of VersionMissing: the cache is never consulted
VersionMissingAlways(cache) == TRUE

\* mutant of VersionMissing: the query is never issued
VersionMissingNever(cache) == FALSE

\* !neo4jDatabaseInfo?.version
VersionMissing(cache) == ~Truthy(Version(cache))

\* the fields wrapResolver derives, before the caller's context is spread over them
DerivedFields(a, exec, cache, authCtx) ==
    [ nodes |-> a.nodes,
      relationships |-> a.relationships,
      schemaModel |-> a.schemaModel,
      features |-> a.features,
      subscriptionsEnabled |-> Truthy(Get(a.features, "subscriptions")),
      executor |-> exec,
      neo4jDatabaseInfo |-> cache,
      authorization |-> authCtx ]

\* mutant of InternalContext: the caller's context is spread first
InternalContextDerivedLast(a, exec, cache, authCtx, ctx) ==
    Spread(ctx, DerivedFields(a, exec, cache, authCtx))

\* internalContext = { nodes, ..., authorization, ...context }
InternalContext(a, exec, cache, authCtx, ctx) ==
    Spread(DerivedFields(a, exec, cache, authCtx), ctx)

\* the third argument of next: { ...context, ...internalContext }
ComposedContext(a, exec, cache, authCtx, ctx) ==
    Spread(ctx, InternalContext(a, exec, cache, authCtx, ctx))

Ctx(i) == context[contextOf[i]]

\* the handle check fails: throw new Error("A Neo4j driver instance must ...")
ThrowNoDriver(i) ==
    /\ pc[i] = "start"
    /\ HandleMissing(Ctx(i), args[i].driver)
    /\ thrown' = [thrown EXCEPT ![i] = ConfigurationError]
    /\ pc' = [pc EXCEPT ![i] = "rejected"]
    /\ UNCHANGED << args, contextOf, callerContext, context, neo4jDatabaseInfo,
                    authorizationContext, executor, nextCalls, decodeCalls,
                    versionQueries, subscriptionVars, operationVars >>

\* the handle check passes and getAuthorizationContext suspends in authorization.decode
CallDecode(i) ==
    /\ pc[i] = "start"
    /\ ~HandleMissing(Ctx(i), args[i].driver)
    /\ LET ctx == EnsureHandle(Ctx(i), args[i].driver) IN
        /\ NeedsDecode(ctx, args[i].authorization)
        /\ context' = [context EXCEPT ![contextOf[i]] = ctx]
    /\ decodeCalls' = [decodeCalls EXCEPT ![i] = "pending"]
    /\ pc' = [pc EXCEPT ![i] = "decode"]
    /\ UNCHANGED << args, contextOf, callerContext, neo4jDatabaseInfo,
                    authorizationContext, executor, nextCalls, thrown,
                    versionQueries, subscriptionVars, operationVars >>

\* the handle check passes and getAuthorizationContext returns without decoding
ReturnCarried(i) ==
    /\ pc[i] = "start"
    /\ ~HandleMissing(Ctx(i), args[i].driver)
    /\ LET ctx == EnsureHandle(Ctx(i), args[i].driver) IN
        /\ ~NeedsDecode(ctx, args[i].authorization)
        /\ context' = [context EXCEPT ![contextOf[i]] = ctx]
        /\ authorizationContext' =
               [authorizationContext EXCEPT ![i] = CarriedAuthorizationContext(ctx)]
    /\ pc' = [pc EXCEPT ![i] = "resume"]
    /\ UNCHANGED << args, contextOf, callerContext, neo4jDatabaseInfo, executor,
                    nextCalls, thrown, decodeCalls, versionQueries,
                    subscriptionVars, operationVars >>

\* authorization.decode resolves: context.jwt = <claims>, return the authenticated verdict
DecodeResolves(i) ==
    /\ pc[i] = "decode"
    /\ LET ctx == Put(Ctx(i), "jwt", DecodedClaims) IN
        /\ context' = [context EXCEPT ![contextOf[i]] = ctx]
        /\ authorizationContext' =
               [authorizationContext EXCEPT
                   ![i] = DecodedAuthorizationContext(ctx, args[i].jwtPayloadFieldsMap)]
    /\ decodeCalls' = [decodeCalls EXCEPT ![i] = "resolved"]
    /\ pc' = [pc EXCEPT ![i] = "resume"]
    /\ UNCHANGED << args, contextOf, callerContext, neo4jDatabaseInfo, executor,
                    nextCalls, thrown, versionQueries, subscriptionVars, operationVars >>

\* authorization.decode rejects: the catch block returns the unauthenticated verdict
DecodeRejects(i) ==
    /\ pc[i] = "decode"
    /\ authorizationContext' =
           [authorizationContext EXCEPT ![i] = UnauthenticatedAuthorizationContext]
    /\ decodeCalls' = [decodeCalls EXCEPT ![i] = "rejected"]
    /\ pc' = [pc EXCEPT ![i] = "resume"]
    /\ UNCHANGED << args, contextOf, callerContext, context, neo4jDatabaseInfo,
                    executor, nextCalls, thrown, versionQueries, subscriptionVars, operationVars >>

\* wrapResolver resumes after getAuthorizationContext and suspends in getNeo4jDatabaseInfo
ResumeAndQuery(i) ==
    /\ pc[i] = "resume"
    /\ LET ctx == WriteBackJwt(Ctx(i), authorizationContext[i])
           cache == ApplyOverride(neo4jDatabaseInfo, args[i].dbInfo) IN
        /\ VersionMissing(cache)
        /\ context' = [context EXCEPT ![contextOf[i]] = ctx]
        /\ executor' = [executor EXCEPT ![i] = Executor(ctx)]
        /\ neo4jDatabaseInfo' = cache
    /\ versionQueries' = [versionQueries EXCEPT ![i] = "pending"]
    /\ pc' = [pc EXCEPT ![i] = "version"]
    /\ UNCHANGED << args, contextOf, callerContext, authorizationContext,
                    nextCalls, thrown, decodeCalls, subscriptionVars, operationVars >>

\* wrapResolver resumes after getAuthorizationContext, finds a version and calls next
ResumeAndCallNext(i) ==
    /\ pc[i] = "resume"
    /\ LET ctx == WriteBackJwt(Ctx(i), authorizationContext[i])
           cache == ApplyOverride(neo4jDatabaseInfo, args[i].dbInfo) IN
        /\ ~VersionMissing(cache)
        /\ context' = [context EXCEPT ![contextOf[i]] = ctx]
        /\ executor' = [executor EXCEPT ![i] = Executor(ctx)]
        /\ neo4jDatabaseInfo' = cache
        /\ nextCalls' = [nextCalls EXCEPT ![i] =
               Append(@, ComposedContext(args[i], Executor(ctx), cache,
                                         authorizationContext[i], ctx))]
    /\ pc' = [pc EXCEPT ![i] = "returned"]
    /\ UNCHANGED << args, contextOf, callerContext, authorizationContext,
                    thrown, decodeCalls, versionQueries, subscriptionVars, operationVars >>

\* getNeo4jDatabaseInfo resolves: the result is cached and next is called
VersionResolves(i) ==
    /\ pc[i] = "version"
    /\ neo4jDatabaseInfo' = QueriedInfo
    /\ nextCalls' = [nextCalls EXCEPT ![i] =
           Append(@, ComposedContext(args[i], executor[i], QueriedInfo,
                                     authorizationContext[i], Ctx(i)))]
    /\ versionQueries' = [versionQueries EXCEPT ![i] = "resolved"]
    /\ pc' = [pc EXCEPT ![i] = "returned"]
    /\ UNCHANGED << args, contextOf, callerContext, context, authorizationContext,
                    executor, thrown, decodeCalls, subscriptionVars, operationVars >>

\* getNeo4jDatabaseInfo rejects: the rejection leaves wrapResolver
VersionRejects(i) ==
    /\ pc[i] = "version"
    /\ thrown' = [thrown EXCEPT ![i] = VersionQueryError]
    /\ versionQueries' = [versionQueries EXCEPT ![i] = "rejected"]
    /\ pc' = [pc EXCEPT ![i] = "rejected"]
    /\ UNCHANGED << args, contextOf, callerContext, context, neo4jDatabaseInfo,
                    authorizationContext, executor, nextCalls, decodeCalls,
                    subscriptionVars, operationVars >>

(* ------------------------------------------------------------------ *)
(* wrapSubscription                                                    *)
(* ------------------------------------------------------------------ *)

\* the context argument when the caller passes undefined
NoContext == [isUndefined |-> TRUE]

\* authorization configurations; globalAuthentication is set on the second
OptionalAuthorization == "authorization"
GlobalAuthorization == "authorization:globalAuthentication"

\* resolverArgs.authorization.globalAuthentication
GlobalAuthentication(authorization) == authorization = GlobalAuthorization

\* claims a client wrote into its connection parameters
ParamClaims == "claims:connectionParams"

\* the connectionParams a client can send
ConnectionParams ==
    { NoFields,
      [authorization |-> "Bearer token"],
      [authorization |-> ""],
      [jwt |-> ParamClaims],
      [authorization |-> "Bearer token", jwt |-> ParamClaims],
      [authorization |-> "", jwt |-> ParamClaims, custom |-> "custom"] }

\* the context arguments of wrapSubscription
ConnectionContexts ==
    {NoContext, NoFields, [jwt |-> CallerClaims]}
    \cup {[connectionParams |-> p] : p \in ConnectionParams}
    \cup {[connectionParams |-> p, jwt |-> CallerClaims] : p \in ConnectionParams}

\* the WrapResolverArguments wrapSubscription reads
SubscriptionResolverArguments ==
    [ features : {NoFields, [subscriptions |-> "engine"]},
      schemaModel : {"schemaModel"},
      jwtPayloadFieldsMap : {Undefined, PayloadFieldsMap},
      authorization : {Undefined, OptionalAuthorization, GlobalAuthorization} ]

\* the own fields of the context argument ({ ...context } of undefined is {})
Fields(ctx) == IF ctx = NoContext THEN NoFields ELSE ctx

\* context?.jwt
ConnectionJwt(ctx) == Get(Fields(ctx), "jwt")

\* contextParams = context?.connectionParams || {}
ContextParams(ctx) ==
    IF "connectionParams" \in DOMAIN Fields(ctx)
    THEN Fields(ctx)["connectionParams"]
    ELSE NoFields

\* subscriptionContext = { plugin: subscriptionsConfig, schemaModel }
NewSubscriptionContext(a) ==
    [plugin |-> Get(a.features, "subscriptions"), schemaModel |-> a.schemaModel]

\* the third argument of next: { ...context, ...contextParams, ...subscriptionContext }
SubscriptionComposedContext(ctx, subCtx) ==
    Spread(Spread(Fields(ctx), ContextParams(ctx)), subCtx)

\* mutant of MustReject: the globalAuthentication test is negated
MustRejectNegated(ctx, authorization) ==
    ~Truthy(Get(ContextParams(ctx), "authorization")) /\ ~GlobalAuthentication(authorization)

\* !contextParams.authorization && resolverArgs.authorization.globalAuthentication
MustReject(ctx, authorization) ==
    ~Truthy(Get(ContextParams(ctx), "authorization")) /\ GlobalAuthentication(authorization)

\* mutant of SubscriptionsConfigured: the test of subscriptionsConfig is dropped
SubscriptionsConfiguredAlways == TRUE

\* subscriptionsConfig = resolverArgs?.features.subscriptions, as tested
SubscriptionsConfigured == Truthy(Get(resolverArgs.features, "subscriptions"))

\* subscriptions are not configured: next is called with the context argument itself
PassThrough ==
    /\ subscriptionPc = "start"
    /\ ~SubscriptionsConfigured
    /\ subscriptionNextCalls' = Append(subscriptionNextCalls, connectionContext)
    /\ subscriptionPc' = "returned"
    /\ UNCHANGED << requestVars, operationVars, resolverArgs, connectionContext, subscriptionContext,
                    subscriptionThrown, bearerDecodeCalls >>

\* the connection context carries a jwt: it is reused
ReuseJwt ==
    /\ subscriptionPc = "start"
    /\ SubscriptionsConfigured
    /\ Truthy(ConnectionJwt(connectionContext))
    /\ LET subCtx == Put(NewSubscriptionContext(resolverArgs), "jwt",
                         ConnectionJwt(connectionContext)) IN
        /\ subscriptionContext' = subCtx
        /\ subscriptionNextCalls' =
               Append(subscriptionNextCalls,
                      SubscriptionComposedContext(connectionContext, subCtx))
    /\ subscriptionPc' = "returned"
    /\ UNCHANGED << requestVars, operationVars, resolverArgs, connectionContext, subscriptionThrown,
                    bearerDecodeCalls >>

\* no jwt on the connection context and no authorization configured
NoDecoder ==
    /\ subscriptionPc = "start"
    /\ SubscriptionsConfigured
    /\ ~Truthy(ConnectionJwt(connectionContext))
    /\ ~Truthy(resolverArgs.authorization)
    /\ LET subCtx == NewSubscriptionContext(resolverArgs) IN
        /\ subscriptionContext' = subCtx
        /\ subscriptionNextCalls' =
               Append(subscriptionNextCalls,
                      SubscriptionComposedContext(connectionContext, subCtx))
    /\ subscriptionPc' = "returned"
    /\ UNCHANGED << requestVars, operationVars, resolverArgs, connectionContext, subscriptionThrown,
                    bearerDecodeCalls >>

\* no token in the connection parameters and globalAuthentication: throw Unauthenticated
ThrowUnauthenticated ==
    /\ subscriptionPc = "start"
    /\ SubscriptionsConfigured
    /\ ~Truthy(ConnectionJwt(connectionContext))
    /\ Truthy(resolverArgs.authorization)
    /\ MustReject(connectionContext, resolverArgs.authorization)
    /\ subscriptionContext' = NewSubscriptionContext(resolverArgs)
    /\ subscriptionThrown' = UnauthenticatedError
    /\ subscriptionPc' = "rejected"
    /\ UNCHANGED << requestVars, operationVars, resolverArgs, connectionContext,
                    subscriptionNextCalls, bearerDecodeCalls >>

\* the call suspends in authorization.decodeBearerTokenWithVerify(contextParams.authorization)
CallDecodeBearer ==
    /\ subscriptionPc = "start"
    /\ SubscriptionsConfigured
    /\ ~Truthy(ConnectionJwt(connectionContext))
    /\ Truthy(resolverArgs.authorization)
    /\ ~MustReject(connectionContext, resolverArgs.authorization)
    /\ subscriptionContext' = NewSubscriptionContext(resolverArgs)
    /\ bearerDecodeCalls' =
           Append(bearerDecodeCalls,
                  [ token |-> Get(ContextParams(connectionContext), "authorization"),
                    promise |-> "pending" ])
    /\ subscriptionPc' = "decode"
    /\ UNCHANGED << requestVars, operationVars, resolverArgs, connectionContext,
                    subscriptionNextCalls, subscriptionThrown >>

\* the pending decodeBearerTokenWithVerify call settles
Settle(calls, outcome) == [calls EXCEPT ![Len(calls)].promise = outcome]

\* the subscriptionContext after decodeBearerTokenWithVerify resolved to jwt
WithDecodedJwt(subCtx, jwt, jwtPayloadFieldsMap) ==
    Put(Put(subCtx, "jwt", jwt), "jwtPayloadFieldsMap", jwtPayloadFieldsMap)

\* mutant of WithUndefinedJwt: the catch block leaves subscriptionContext alone
WithUndefinedJwtDropped(subCtx) == subCtx

\* the subscriptionContext after the catch block: subscriptionContext.jwt = undefined
WithUndefinedJwt(subCtx) == Put(subCtx, "jwt", Undefined)

\* decodeBearerTokenWithVerify resolves: jwt and jwtPayloadFieldsMap are recorded, next is called
BearerResolves ==
    /\ subscriptionPc = "decode"
    /\ LET subCtx == WithDecodedJwt(subscriptionContext, DecodedClaims,
                                    resolverArgs.jwtPayloadFieldsMap) IN
        /\ subscriptionContext' = subCtx
        /\ subscriptionNextCalls' =
               Append(subscriptionNextCalls,
                      SubscriptionComposedContext(connectionContext, subCtx))
    /\ bearerDecodeCalls' = Settle(bearerDecodeCalls, "resolved")
    /\ subscriptionPc' = "returned"
    /\ UNCHANGED << requestVars, operationVars, resolverArgs, connectionContext, subscriptionThrown >>

\* decodeBearerTokenWithVerify rejects and globalAuthentication is set: throw e
BearerRejectsGlobal ==
    /\ subscriptionPc = "decode"
    /\ GlobalAuthentication(resolverArgs.authorization)
    /\ subscriptionThrown' = BearerDecodeError
    /\ bearerDecodeCalls' = Settle(bearerDecodeCalls, "rejected")
    /\ subscriptionPc' = "rejected"
    /\ UNCHANGED << requestVars, operationVars, resolverArgs, connectionContext, subscriptionContext,
                    subscriptionNextCalls >>

\* decodeBearerTokenWithVerify rejects, globalAuthentication is not set: jwt = undefined, next
BearerRejectsOptional ==
    /\ subscriptionPc = "decode"
    /\ ~GlobalAuthentication(resolverArgs.authorization)
    /\ LET subCtx == WithUndefinedJwt(subscriptionContext) IN
        /\ subscriptionContext' = subCtx
        /\ subscriptionNextCalls' =
               Append(subscriptionNextCalls,
                      SubscriptionComposedContext(connectionContext, subCtx))
    /\ bearerDecodeCalls' = Settle(bearerDecodeCalls, "rejected")
    /\ subscriptionPc' = "returned"
    /\ UNCHANGED << requestVars, operationVars, resolverArgs, connectionContext, subscriptionThrown >>

(* ------------------------------------------------------------------ *)
(* Operation                                                           *)
(* ------------------------------------------------------------------ *)

MaxAttributes == 4
MaxAnnotations == 2

SeqsUpTo(S, n) == UNION {[1..k -> S] : k \in 0..n}

AttributeNames == {"id", "title"}
\* an Attribute: its name and what else it holds
Attributes == [name : AttributeNames, type : {"ID", "String"}]
\* an Annotation: its kind and its arguments
AnnotationValues == [kind : {"cypher", "authentication"}, arguments : {"x", "y"}]

\* the constructor's argument; an omitted list is the empty list
OperationInputs ==
    [ name : {"Query"},
      attributes : SeqsUpTo(Attributes, MaxAttributes),
      annotations : SeqsUpTo(AnnotationValues, MaxAnnotations) ]

\* the key an annotation is stored under: its kind
annotationToKey(annotation) == annotation.kind

\* the outcome of a method that may throw: the object and the error message
Outcome(this, error) == [this |-> this, thrown |-> error]

\* mutant of addAttribute: the has() test is missing
addAttributeUnchecked(this, attribute) ==
    Outcome([this EXCEPT !.attributes = Put(this.attributes, attribute.name, attribute)],
            NoError)

addAttribute(this, attribute) ==
    IF attribute.name \in DOMAIN this.attributes
    THEN Outcome(this, "Attribute " \o attribute.name \o " already exists in " \o this.name)
    ELSE Outcome([this EXCEPT !.attributes = Put(this.attributes, attribute.name, attribute)],
                 NoError)

\* an annotation is an object, so a stored one is truthy
addAnnotation(this, annotation) ==
    LET annotationKey == annotationToKey(annotation) IN
    IF annotationKey \in DOMAIN this.annotations
    THEN Outcome(this, "Annotation " \o annotationKey \o " already exists in " \o this.name)
    ELSE Outcome([this EXCEPT !.annotations = Put(this.annotations, annotationKey, annotation)],
                 NoError)

\* for (const attribute of attributes) this.addAttribute(attribute), left at the first throw
RECURSIVE AddAttributes(_, _)
AddAttributes(outcome, attributes) ==
    IF attributes = << >> \/ outcome.thrown # NoError
    THEN outcome
    ELSE AddAttributes(addAttribute(outcome.this, Head(attributes)), Tail(attributes))

\* for (const annotation of annotations) this.addAnnotation(annotation), left at the first throw
RECURSIVE AddAnnotations(_, _)
AddAnnotations(outcome, annotations) ==
    IF annotations = << >> \/ outcome.thrown # NoError
    THEN outcome
    ELSE AddAnnotations(addAnnotation(outcome.this, Head(annotations)), Tail(annotations))

\* the constructor: field initialisers, then the two loops
OperationConstructor(input) ==
    LET this == [name |-> input.name, attributes |-> NoFields, annotations |-> NoFields]
        added == AddAttributes(Outcome(this, NoError), input.attributes)
    IN  AddAnnotations(added, input.annotations)

findAttribute(this, name) == Get(this.attributes, name)

\* the names findAttribute is called with
LookupNames == AttributeNames \cup {"missing"}

\* new Operation(operationInput)
NewOperation ==
    /\ operationPc = "start"
    /\ LET outcome == OperationConstructor(operationInput) IN
        /\ operationThrown' = outcome.thrown
        /\ IF outcome.thrown = NoError
           THEN operation' = outcome.this /\ operationPc' = "constructed"
           ELSE operation' = operation /\ operationPc' = "thrown"
    /\ UNCHANGED << operationInput, found, requestVars, subscriptionVars >>

\* operation.findAttribute(name)
Lookup ==
    /\ operationPc = "constructed"
    /\ \E name \in LookupNames :
           found' = [name |-> name, result |-> findAttribute(operation, name)]
    /\ UNCHANGED << operationInput, operation, operationPc, operationThrown,
                    requestVars, subscriptionVars >>

\* no Operation is constructed
NoOperation ==
    /\ operationInput = [name |-> "Query", attributes |-> << >>, annotations |-> << >>]
    /\ operation = Unassigned
    /\ operationPc = "idle"
    /\ operationThrown = NoError
    /\ found = Unassigned

(* ------------------------------------------------------------------ *)
(* Specification of the request path                                   *)
(* ------------------------------------------------------------------ *)

\* invocation i is given a context object of an earlier invocation or its own
ContextSharing(f) ==
    \A i \in Invocations : f[i] = i \/ (\E j \in 1..(i - 1) : f[j] = j /\ f[i] = j)

\* the invocations' wrappers are built on one driver and one authorization
\* configuration; each may have been given its own dbInfo
SameInstance(f) ==
    \A i \in Invocations :
        /\ f[i].driver = f[1].driver
        /\ f[i].authorization = f[1].authorization

\* no wrapResolver invocation takes part
NoRequests ==
    /\ args = [i \in Invocations |->
                 CHOOSE a \in WrapResolverArguments :
                     a.driver = Undefined /\ a.dbInfo = Undefined
                         /\ a.authorization = Undefined]
    /\ contextOf = [i \in Invocations |-> i]
    /\ callerContext = [i \in Invocations |-> NoFields]
    /\ context = callerContext
    /\ neo4jDatabaseInfo = Undefined
    /\ pc = [i \in Invocations |-> "idle"]
    /\ authorizationContext = [i \in Invocations |-> Unassigned]
    /\ executor = [i \in Invocations |-> Unassigned]
    /\ nextCalls = [i \in Invocations |-> << >>]
    /\ thrown = [i \in Invocations |-> NoError]
    /\ decodeCalls = [i \in Invocations |-> "none"]
    /\ versionQueries = [i \in Invocations |-> "none"]

\* no wrapSubscription call takes part
NoSubscription ==
    /\ resolverArgs = CHOOSE a \in SubscriptionResolverArguments :
                         a.features = NoFields /\ a.authorization = Undefined
                             /\ a.jwtPayloadFieldsMap = Undefined
    /\ connectionContext = NoContext
    /\ subscriptionContext = Unassigned
    /\ subscriptionPc = "idle"
    /\ subscriptionNextCalls = << >>
    /\ subscriptionThrown = NoError
    /\ bearerDecodeCalls = << >>

Init ==
    /\ NoSubscription
    /\ NoOperation
    /\ args \in [Invocations -> WrapResolverArguments]
    /\ SameInstance(args)
    /\ contextOf \in [Invocations -> Invocations]
    /\ ContextSharing(contextOf)
    /\ callerContext \in [Invocations -> CallerContexts]
    /\ \A c \in Invocations :
           (\A i \in Invocations : contextOf[i] # c) => callerContext[c] = NoFields
    /\ context = callerContext
    /\ neo4jDatabaseInfo = Undefined
    /\ pc = [i \in Invocations |-> "start"]
    /\ authorizationContext = [i \in Invocations |-> Unassigned]
    /\ executor = [i \in Invocations |-> Unassigned]
    /\ nextCalls = [i \in Invocations |-> << >>]
    /\ thrown = [i \in Invocations |-> NoError]
    /\ decodeCalls = [i \in Invocations |-> "none"]
    /\ versionQueries = [i \in Invocations |-> "none"]

Next ==
    \E i \in Invocations :
        \/ ThrowNoDriver(i)
        \/ CallDecode(i)
        \/ ReturnCarried(i)
        \/ DecodeResolves(i)
        \/ DecodeRejects(i)
        \/ ResumeAndQuery(i)
        \/ ResumeAndCallNext(i)
        \/ VersionResolves(i)
        \/ VersionRejects(i)

Spec == Init /\ [][Next]_vars

(* ------------------------------------------------------------------ *)
(* Specification of the subscription path                              *)
(* ------------------------------------------------------------------ *)

InitSubscription ==
    /\ NoRequests
    /\ NoOperation
    /\ resolverArgs \in SubscriptionResolverArguments
    /\ connectionContext \in ConnectionContexts
    /\ subscriptionContext = Unassigned
    /\ subscriptionPc = "start"
    /\ subscriptionNextCalls = << >>
    /\ subscriptionThrown = NoError
    /\ bearerDecodeCalls = << >>

NextSubscription ==
    \/ PassThrough
    \/ ReuseJwt
    \/ NoDecoder
    \/ ThrowUnauthenticated
    \/ CallDecodeBearer
    \/ BearerResolves
    \/ BearerRejectsGlobal
    \/ BearerRejectsOptional

SpecSubscription == InitSubscription /\ [][NextSubscription]_vars

(* ------------------------------------------------------------------ *)
(* Specification of Operation                                          *)
(* ------------------------------------------------------------------ *)

InitOperation ==
    /\ NoRequests
    /\ NoSubscription
    /\ operationInput \in OperationInputs
    /\ operation = Unassigned
    /\ operationPc = "start"
    /\ operationThrown = NoError
    /\ found = Unassigned

NextOperation ==
    \/ NewOperation
    \/ Lookup

SpecOperation == InitOperation /\ [][NextOperation]_vars

(* ------------------------------------------------------------------ *)
(* Claims about wrapSubscription (checked under SpecSubscription)      *)
(* ------------------------------------------------------------------ *)

\* the jwt of the context the n-th call of next received
SubscriptionNextJwt(n) == Get(Fields(subscriptionNextCalls[n]), "jwt")

\* the connection parameters have no authorization entry
NoAuthorizationParam == "authorization" \notin DOMAIN ContextParams(connectionContext)

\* the decodeBearerTokenWithVerify call was made and rejected
BearerDecodeFailed ==
    /\ Len(bearerDecodeCalls) = 1
    /\ bearerDecodeCalls[1].promise = "rejected"

\* C1: with subscriptions enabled, no authorization configured and no jwt on the
\* connection context, the context handed to next carries no jwt, whatever the
\* connection parameters contain.
C1_NoDecoderNoJwt ==
    ( /\ SubscriptionsConfigured
      /\ ~Truthy(resolverArgs.authorization)
      /\ ~Truthy(ConnectionJwt(connectionContext)) )
    => \A n \in 1..Len(subscriptionNextCalls) : SubscriptionNextJwt(n) = Undefined

\* C2 as stated: with globalAuthentication set and no authorization connection
\* parameter, wrapSubscription fails with the authentication error and never
\* invokes next.
C2_GlobalAuthenticationAlwaysRejects ==
    ( /\ GlobalAuthentication(resolverArgs.authorization)
      /\ NoAuthorizationParam )
    => /\ subscriptionNextCalls = << >>
       /\ subscriptionPc # "start" =>
              subscriptionPc = "rejected" /\ subscriptionThrown = UnauthenticatedError

\* C2 amended: with subscriptions enabled, no jwt on the connection context,
\* globalAuthentication set and no authorization connection parameter,
\* wrapSubscription fails with the authentication error, never invokes next and
\* never invokes the decoder.
C2_GlobalAuthenticationRejects ==
    ( /\ SubscriptionsConfigured
      /\ ~Truthy(ConnectionJwt(connectionContext))
      /\ GlobalAuthentication(resolverArgs.authorization)
      /\ NoAuthorizationParam )
    => /\ subscriptionNextCalls = << >>
       /\ bearerDecodeCalls = << >>
       /\ subscriptionPc # "start" =>
              subscriptionPc = "rejected" /\ subscriptionThrown = UnauthenticatedError

\* C2 witness: such a connection has been rejected with the authentication error
C2_Witness ==
    /\ SubscriptionsConfigured
    /\ ~Truthy(ConnectionJwt(connectionContext))
    /\ GlobalAuthentication(resolverArgs.authorization)
    /\ NoAuthorizationParam
    /\ subscriptionPc = "rejected"
    /\ subscriptionThrown = UnauthenticatedError

\* C3: when the decoder is invoked and fails, then with globalAuthentication the
\* decode error is propagated and next is never invoked, and without it next is
\* invoked exactly once with a context whose jwt is absent.
C3_DecodeFailure ==
    BearerDecodeFailed =>
        IF GlobalAuthentication(resolverArgs.authorization)
        THEN /\ subscriptionPc = "rejected"
             /\ subscriptionThrown = BearerDecodeError
             /\ subscriptionNextCalls = << >>
        ELSE /\ subscriptionPc = "returned"
             /\ subscriptionThrown = NoError
             /\ Len(subscriptionNextCalls) = 1
             /\ SubscriptionNextJwt(1) = Undefined

\* C3 witness: the decode failed without globalAuthentication on a connection
\* whose parameters carry a jwt entry, and next has been called
C3_Witness ==
    /\ BearerDecodeFailed
    /\ ~GlobalAuthentication(resolverArgs.authorization)
    /\ Get(ContextParams(connectionContext), "jwt") = ParamClaims
    /\ Len(subscriptionNextCalls) = 1

(* ------------------------------------------------------------------ *)
(* Claims about wrapResolver (checked under Spec)                      *)
(* ------------------------------------------------------------------ *)

\* the invocations that were called with context object c
OnContext(c) == {i \in Invocations : contextOf[i] = c}

\* invocation i takes a step out of its first block
LeavesStart(i) == pc[i] = "start" /\ pc'[i] # "start"

C5_NoDecoderJwtUndefined ==
    \A i \in Invocations :
        (~Truthy(args[i].authorization) /\ authorizationContext[i] # Unassigned) =>
            /\ authorizationContext[i].isAuthenticated = TRUE
            /\ Get(authorizationContext[i], "jwt") = Undefined

\* C5 amended: with no decoder configured the AuthorizationContext has
\* isAuthenticated = true; its jwt is undefined when the context carries no
\* claims and is the carried claims otherwise.
C5_NoDecoderPermissive ==
    \A i \in Invocations :
        (~Truthy(args[i].authorization) /\ authorizationContext[i] # Unassigned) =>
            LET carried == Get(callerContext[contextOf[i]], "jwt") IN
            /\ authorizationContext[i].isAuthenticated = TRUE
            /\ ~Truthy(carried) => Get(authorizationContext[i], "jwt") = Undefined
            /\ Truthy(carried) => Get(authorizationContext[i], "jwt") = carried

\* C5 witness: a request without decoder and without claims got its verdict and
\* reached next
C5_Witness ==
    \E i \in Invocations :
        /\ ~Truthy(args[i].authorization)
        /\ ~Truthy(Get(callerContext[contextOf[i]], "jwt"))
        /\ authorizationContext[i] # Unassigned
        /\ pc[i] = "returned"

\* C6: when the context already carries claims as getAuthorizationContext runs,
\* the decoder is not invoked (then or later), and the verdict is authenticated
\* with jwt and jwtParam built from exactly those claims.
C6_CarriedClaimsNotDecoded ==
    [][ \A i \in Invocations :
          /\ (LeavesStart(i) /\ Truthy(Get(Ctx(i), "jwt"))) =>
                 /\ decodeCalls'[i] = "none"
                 /\ pc'[i] \in {"resume", "rejected"}
                 /\ pc'[i] = "resume" =>
                        authorizationContext'[i] =
                            [ isAuthenticated |-> TRUE,
                              jwt |-> Get(Ctx(i), "jwt"),
                              jwtParam |-> [name |-> "jwt", value |-> Get(Ctx(i), "jwt")],
                              isAuthenticatedParam |->
                                  [name |-> "isAuthenticated", value |-> TRUE] ]
          /\ (pc[i] # "start" /\ decodeCalls[i] = "none") =>
                 /\ decodeCalls'[i] = "none"
                 /\ authorizationContext[i] # Unassigned =>
                        authorizationContext'[i] = authorizationContext[i]
      ]_vars

\* C6 witness: a decoder is configured, the caller's context carried claims, and
\* the invocation holds a verdict built from them without a decode call
C6_Witness ==
    \E i \in Invocations :
        /\ Truthy(args[i].authorization)
        /\ Get(callerContext[contextOf[i]], "jwt") = CallerClaims
        /\ pc[i] = "returned"
        /\ decodeCalls[i] = "none"
        /\ Get(authorizationContext[i], "jwt") = CallerClaims

\* C7: the decoder is invoked at most once for the invocations of one request
\* that share a context object, under every interleaving.
C7_DecodeAtMostOncePerRequest ==
    \A c \in Invocations :
        Cardinality({i \in OnContext(c) : decodeCalls[i] # "none"}) <= 1

\* C8: an invocation with no executionContext on its context and no driver
\* fails with the configuration error before the decoder is invoked, before a
\* version query is issued and without invoking next, and leaves the context
\* object and the version cache unchanged.
C8_NoHandleNoDriver ==
    [][ \A i \in Invocations :
          /\ ( /\ LeavesStart(i)
               /\ ~Truthy(Get(Ctx(i), "executionContext"))
               /\ ~Truthy(args[i].driver) ) =>
                 /\ pc'[i] = "rejected"
                 /\ thrown'[i] = ConfigurationError
                 /\ decodeCalls' = decodeCalls
                 /\ versionQueries' = versionQueries
                 /\ nextCalls' = nextCalls
                 /\ context' = context
                 /\ neo4jDatabaseInfo' = neo4jDatabaseInfo
          /\ thrown[i] = ConfigurationError =>
                 /\ pc'[i] = "rejected"
                 /\ decodeCalls'[i] = "none"
                 /\ versionQueries'[i] = "none"
                 /\ nextCalls'[i] = << >>
      ]_vars

\* C8 witness: with a decoder configured, an invocation has failed with the
\* configuration error and its context object is as the caller built it
C8_Witness ==
    \E i \in Invocations :
        /\ Truthy(args[i].authorization)
        /\ thrown[i] = ConfigurationError
        /\ pc[i] = "rejected"
        /\ decodeCalls[i] = "none"
        /\ Ctx(i) = callerContext[contextOf[i]]

\* C9: when the caller's context names a handle, the Executor is built on it,
\* context.executionContext stays equal to it and the configured driver is never
\* installed; when none is named and a driver is configured, the driver is
\* written to context.executionContext and the Executor is built on it.
C9_HandleReuse ==
    \A i \in Invocations :
        LET c == contextOf[i]
            named == Get(callerContext[c], "executionContext") IN
        /\ Truthy(named) =>
               /\ Get(context[c], "executionContext") = named
               /\ executor[i] # Unassigned => executor[i].executionContext = named
        /\ (~Truthy(named) /\ Truthy(args[i].driver) /\ pc[i] # "start") =>
               /\ Get(context[c], "executionContext") = args[i].driver
               /\ executor[i] # Unassigned =>
                      executor[i].executionContext = args[i].driver

\* C9 witness: a driver is configured, the caller named H1, and the Executor of
\* an invocation is built on H1
C9_Witness ==
    \E i \in Invocations :
        /\ Truthy(args[i].driver)
        /\ Get(callerContext[contextOf[i]], "executionContext") = CallerHandle
        /\ executor[i] # Unassigned
        /\ executor[i].executionContext = CallerHandle

\* the field names wrapResolver derives
DerivedNames ==
    { "nodes", "relationships", "schemaModel", "features", "subscriptionsEnabled",
      "executor", "neo4jDatabaseInfo", "authorization" }

\* C10: in the context passed to next, every field of the caller's context
\* object has the value that object holds (the caller's own value for every
\* field but jwt and executionContext, which wrapResolver may have filled in),
\* also for the names wrapResolver derives; a derived field appears with its
\* derived value only when the caller's context has no field of that name.
C10_CallerFieldsWin ==
    [][ \A i \in Invocations :
          nextCalls'[i] # nextCalls[i] =>
              LET composed == nextCalls'[i][Len(nextCalls'[i])]
                  ctx == context'[contextOf[i]]
                  caller == callerContext[contextOf[i]] IN
              /\ \A k \in DOMAIN ctx : k \in DOMAIN composed /\ composed[k] = ctx[k]
              /\ \A k \in DOMAIN caller :
                     /\ k \in DOMAIN composed
                     /\ (k \notin {"jwt", "executionContext"} \/ Truthy(caller[k]))
                            => composed[k] = caller[k]
              /\ \A k \in DerivedNames \ DOMAIN ctx :
                     /\ k \in DOMAIN composed
                     /\ k = "nodes" => composed[k] = args[i].nodes
                     /\ k = "relationships" => composed[k] = args[i].relationships
                     /\ k = "schemaModel" => composed[k] = args[i].schemaModel
                     /\ k = "features" => composed[k] = args[i].features
                     /\ k = "subscriptionsEnabled" => composed[k] = TRUE
                     /\ k = "executor" => composed[k] = executor'[i]
                     /\ k = "neo4jDatabaseInfo" => composed[k] = neo4jDatabaseInfo'
                     /\ k = "authorization" => composed[k] = authorizationContext'[i]
      ]_vars

\* C10 witness: the caller supplied its own authorization, executor and
\* neo4jDatabaseInfo, and next received them together with the derived nodes
C10_Witness ==
    \E i \in Invocations :
        /\ Len(nextCalls[i]) = 1
        /\ "authorization" \in DOMAIN callerContext[contextOf[i]]
        /\ nextCalls[i][1]["authorization"] = CallerAuthorization
        /\ nextCalls[i][1]["executor"] = CallerExecutor
        /\ nextCalls[i][1]["neo4jDatabaseInfo"] = CallerInfo
        /\ nextCalls[i][1]["nodes"] = args[i].nodes

\* invocation i takes a step out of the block after getAuthorizationContext
LeavesResume(i) == pc[i] = "resume" /\ pc'[i] # "resume"

\* C11: once the cache holds an info with a version, an invocation that reaches
\* its version step issues no version query and calls next at once; without an
\* override of its own it leaves the cache as it is and passes the cached value
\* to next, with one it passes the override.
C11_CachedVersionNotQueried ==
    [][ \A i \in Invocations :
          (LeavesResume(i) /\ Truthy(Version(neo4jDatabaseInfo))) =>
              /\ versionQueries'[i] = "none"
              /\ pc'[i] = "returned"
              /\ Len(nextCalls'[i]) = 1
              /\ ~Truthy(args[i].dbInfo) => neo4jDatabaseInfo' = neo4jDatabaseInfo
              /\ Truthy(args[i].dbInfo) => neo4jDatabaseInfo' = args[i].dbInfo
              /\ "neo4jDatabaseInfo" \notin DOMAIN Ctx(i) =>
                     nextCalls'[i][1]["neo4jDatabaseInfo"] = neo4jDatabaseInfo'
      ]_vars

\* C11 witness: a first request populated the cache by query, a second request
\* on another context object issued no query and handed next the same value
C11_Witness ==
    \E i, j \in Invocations :
        /\ contextOf[i] # contextOf[j]
        /\ ~Truthy(args[i].dbInfo) /\ ~Truthy(args[j].dbInfo)
        /\ versionQueries[i] = "resolved"
        /\ versionQueries[j] = "none"
        /\ pc[j] = "returned"
        /\ "neo4jDatabaseInfo" \notin DOMAIN context[contextOf[j]]
        /\ nextCalls[j][1]["neo4jDatabaseInfo"] = QueriedInfo

\* the override is in the cache and no version query has resolved so far
OverrideBeforePopulation ==
    /\ neo4jDatabaseInfo = OverrideInfo
    /\ \A j \in Invocations : versionQueries[j] # "resolved"

\* C12: once an override is written to the cache before the cache was ever
\* populated, the cache holds that override from then on under every
\* interleaving, every invocation that calls next afterwards hands it the
\* override, and the invocation that supplies the override issues no query.
C12_OverrideSticks ==
    [][ /\ OverrideBeforePopulation => neo4jDatabaseInfo' = OverrideInfo
        /\ \A i \in Invocations :
               /\ Truthy(args[i].dbInfo) => versionQueries'[i] = "none"
               /\ ( /\ OverrideBeforePopulation
                    /\ nextCalls'[i] # nextCalls[i]
                    /\ "neo4jDatabaseInfo" \notin DOMAIN Ctx(i) ) =>
                      nextCalls'[i][1]["neo4jDatabaseInfo"] = OverrideInfo
      ]_vars

\* an invocation that has returned or rejected
Terminated(i) == pc[i] \in {"returned", "rejected"}

\* C13 as stated: wrapResolver terminates without invoking next only when no
\* handle can be provisioned.
C13_OnlyNoHandleAborts ==
    \A i \in Invocations :
        (Terminated(i) /\ nextCalls[i] = << >>) => thrown[i] = ConfigurationError

\* C13 amended: wrapResolver terminates without invoking next exactly when no
\* handle can be provisioned or its version query rejects; a failed decode does
\* not abort the invocation.
C13_AbortsOnlyOnHandleOrVersion ==
    \A i \in Invocations :
        LET noHandle == /\ ~Truthy(Get(callerContext[contextOf[i]], "executionContext"))
                        /\ ~Truthy(args[i].driver) IN
        /\ (noHandle /\ pc[i] # "start") =>
               pc[i] = "rejected" /\ thrown[i] = ConfigurationError
        /\ pc[i] = "returned" => Len(nextCalls[i]) = 1 /\ thrown[i] = NoError
        /\ pc[i] = "rejected" =>
               /\ nextCalls[i] = << >>
               /\ \/ thrown[i] = ConfigurationError /\ noHandle
                  \/ thrown[i] = VersionQueryError /\ versionQueries[i] = "rejected"
        /\ (decodeCalls[i] = "rejected" /\ versionQueries[i] # "rejected") =>
               pc[i] # "rejected" /\ thrown[i] = NoError

\* C13 witness: one invocation's decode failed and it called next, another
\* terminated without next because its version query rejected
C13_Witness ==
    \E i, j \in Invocations :
        /\ decodeCalls[i] = "rejected" /\ pc[i] = "returned" /\ Len(nextCalls[i]) = 1
        /\ pc[j] = "rejected" /\ thrown[j] = VersionQueryError /\ nextCalls[j] = << >>

\* C14 (under SpecSubscription): when subscriptions are not enabled,
\* wrapSubscription invokes next exactly once with the connection context it
\* received, never invokes the decoder and never raises an authentication
\* error, also with globalAuthentication set and no authorization token.
C14_DisabledPassesThrough ==
    ~Truthy(Get(resolverArgs.features, "subscriptions")) =>
        /\ bearerDecodeCalls = << >>
        /\ subscriptionThrown = NoError
        /\ subscriptionPc \in {"start", "returned"}
        /\ subscriptionPc = "start" => subscriptionNextCalls = << >>
        /\ subscriptionPc = "returned" => subscriptionNextCalls = << connectionContext >>

\* C14 witness: subscriptions are not enabled, globalAuthentication is set, no
\* token was sent, and next has received the connection context
C14_Witness ==
    /\ ~Truthy(Get(resolverArgs.features, "subscriptions"))
    /\ GlobalAuthentication(resolverArgs.authorization)
    /\ NoAuthorizationParam
    /\ connectionContext # NoContext
    /\ subscriptionPc = "returned"
    /\ subscriptionNextCalls = << connectionContext >>

\* C16: every invocation follows ensure-handle, resolve-authorization,
\* ensure-version-info, compose-context, invoke-next: the decoder is invoked only
\* after the handle check passed, a version query is issued only after
\* authorization resolution finished, and next is invoked at most once and only
\* after all three earlier steps completed.
C16_StepOrder ==
    \A i \in Invocations :
        /\ decodeCalls[i] # "none" =>
               /\ pc[i] # "start"
               /\ thrown[i] # ConfigurationError
               /\ Truthy(Get(Ctx(i), "executionContext"))
        /\ pc[i] = "decode" => versionQueries[i] = "none" /\ nextCalls[i] = << >>
        /\ versionQueries[i] # "none" =>
               /\ authorizationContext[i] # Unassigned
               /\ decodeCalls[i] # "pending"
               /\ executor[i] # Unassigned
        /\ pc[i] = "version" => nextCalls[i] = << >>
        /\ Len(nextCalls[i]) <= 1
        /\ Len(nextCalls[i]) = 1 =>
               /\ pc[i] = "returned"
               /\ Truthy(Get(Ctx(i), "executionContext"))
               /\ authorizationContext[i] # Unassigned
               /\ decodeCalls[i] # "pending"
               /\ executor[i] # Unassigned
               /\ versionQueries[i] \in {"none", "resolved"}
               /\ Truthy(Version(neo4jDatabaseInfo))

\* C16 witness: an invocation decoded, queried the version and called next
C16_Witness ==
    \E i \in Invocations :
        /\ decodeCalls[i] = "resolved"
        /\ versionQueries[i] = "resolved"
        /\ Len(nextCalls[i]) = 1

C18_ParamsWellFormed ==
    \A i \in Invocations :
        authorizationContext[i] # Unassigned =>
            LET a == authorizationContext[i] IN
            /\ {"jwtParam", "isAuthenticatedParam"} \subseteq DOMAIN a
            /\ a.isAuthenticatedParam = NamedParam("isAuthenticated", a.isAuthenticated)
            /\ a.jwtParam.name = "jwt"
            /\ Truthy(Get(a, "jwt")) => a.jwtParam.value = a.jwt
            /\ ~Truthy(Get(a, "jwt")) => a.jwtParam.value = EmptyObject

\* C19: with a decoder and a claim-to-field mapping configured and the decode
\* succeeding, the invocation that decoded and each invocation that reuses
\* context.jwt of the same context object get the same isAuthenticated, the
\* same jwt and the same claims.
C19_EquivalentAuthorization ==
    \A i, j \in Invocations :
        ( /\ contextOf[i] = contextOf[j]
          /\ Truthy(args[i].authorization)
          /\ Truthy(args[i].jwtPayloadFieldsMap)
          /\ decodeCalls[i] = "resolved"
          /\ decodeCalls[j] = "none"
          /\ authorizationContext[j] # Unassigned ) =>
            LET a == authorizationContext[i]
                b == authorizationContext[j] IN
            /\ b.isAuthenticated = a.isAuthenticated
            /\ Get(b, "jwt") = Get(a, "jwt")
            /\ Get(b, "claims") = Get(a, "claims")

\* C20: in every composed context passed to next, the caller not supplying an
\* authorization field, jwt equals authorization.jwt, and
\* authorization.isAuthenticated = false implies that jwt is absent.
C20_JwtAgreesWithVerdict ==
    \A i \in Invocations :
        ( /\ Len(nextCalls[i]) = 1
          /\ "authorization" \notin DOMAIN callerContext[contextOf[i]] ) =>
            LET composed == nextCalls[i][1] IN
            /\ Get(composed, "jwt") = Get(composed.authorization, "jwt")
            /\ composed.authorization.isAuthenticated = FALSE =>
                   ~Truthy(Get(composed, "jwt"))

(* ------------------------------------------------------------------ *)
(* Claims about Operation (checked under SpecOperation)                *)
(* ------------------------------------------------------------------ *)

\* the k-th input attribute has the name of an earlier one
DuplicateAttribute(k) ==
    \E j \in 1..(k - 1) :
        operationInput.attributes[j].name = operationInput.attributes[k].name

\* the k-th input annotation has the key of an earlier one
DuplicateAnnotation(k) ==
    \E j \in 1..(k - 1) :
        annotationToKey(operationInput.annotations[j]) =
            annotationToKey(operationInput.annotations[k])

DuplicateAttributes == {k \in DOMAIN operationInput.attributes : DuplicateAttribute(k)}
DuplicateAnnotations == {k \in DOMAIN operationInput.annotations : DuplicateAnnotation(k)}

\* the least index of a non-empty set of indices
First(S) == CHOOSE k \in S : \A j \in S : k <= j

\* C15: constructing an Operation succeeds exactly when the attribute names of
\* the input are distinct and the annotation keys are distinct; otherwise the
\* error names the first duplicate in list order, attributes before
\* annotations, and no entry is overwritten; after a successful construction
\* findAttribute(n) returns the input attribute named n and undefined for
\* every other name.
C15_UniqueOrFirstDuplicate ==
    operationPc \in {"constructed", "thrown"} =>
        /\ operationPc = "constructed" <=>
               (DuplicateAttributes = {} /\ DuplicateAnnotations = {})
        /\ operationPc = "thrown" => operation = Unassigned
        /\ DuplicateAttributes # {} =>
               operationThrown =
                   "Attribute "
                       \o operationInput.attributes[First(DuplicateAttributes)].name
                       \o " already exists in " \o operationInput.name
        /\ (DuplicateAttributes = {} /\ DuplicateAnnotations # {}) =>
               operationThrown =
                   "Annotation "
                       \o annotationToKey(operationInput.annotations[First(DuplicateAnnotations)])
                       \o " already exists in " \o operationInput.name
        /\ operationPc = "constructed" =>
               /\ operationThrown = NoError
               /\ operation.name = operationInput.name
               /\ DOMAIN operation.attributes =
                      {operationInput.attributes[k].name : k \in DOMAIN operationInput.attributes}
               /\ \A k \in DOMAIN operationInput.attributes :
                      operation.attributes[operationInput.attributes[k].name] =
                          operationInput.attributes[k]
               /\ DOMAIN operation.annotations =
                      {annotationToKey(operationInput.annotations[k]) :
                           k \in DOMAIN operationInput.annotations}
               /\ \A k \in DOMAIN operationInput.annotations :
                      operation.annotations[annotationToKey(operationInput.annotations[k])] =
                          operationInput.annotations[k]
        /\ found # Unassigned =>
               /\ operationPc = "constructed"
               /\ IF \E k \in DOMAIN operationInput.attributes :
                         operationInput.attributes[k].name = found.name
                  THEN \E k \in DOMAIN operationInput.attributes :
                         /\ operationInput.attributes[k].name = found.name
                         /\ found.result = operationInput.attributes[k]
                  ELSE found.result = Undefined

\* C15 witness: the input repeats two attribute names and an annotation key, the
\* later-listed name is repeated first, and the constructor threw naming it
C15_Witness ==
    /\ operationPc = "thrown"
    /\ Len(operationInput.attributes) = 4
    /\ operationInput.attributes[1].name = "id"
    /\ operationInput.attributes[2].name = "title"
    /\ operationInput.attributes[3].name = "title"
    /\ operationInput.attributes[3].type # operationInput.attributes[2].type
    /\ operationInput.attributes[4].name = "id"
    /\ DuplicateAnnotations # {}
    /\ operationThrown = "Attribute title already exists in Query"

====
